---- MODULE Spec2Model ----
(***************************************************************************)
(* Model of backend/smart_summary_service.py: SmartSummaryService, the     *)
(* trend analyzer, the stagnation detector, the insight generator and the  *)
(* two-path recommendation pipeline around the awaited LLM call.           *)
(*                                                                         *)
(* Numbers.  Feature scores are integers here; every average, change and   *)
(* variance is kept as an exact fraction [n, d] (d > 0) and compared by    *)
(* cross-multiplication, so that the thresholds 2.0, -2.0, 0.5 and 5 are   *)
(* compared exactly at their boundaries.                                   *)
(***************************************************************************)
EXTENDS Integers, Sequences, FiniteSets, TLC

(***************************************************************************)
(* Bounds of the model                                                     *)
(***************************************************************************)
MaxHist == 15     \* longest history handed to generate_smart_summary
MaxRecs == 5      \* longest 'recommendations' list the collaborator returns
ProbeMax == 300   \* largest |change|, in hundredths, handed to the classification ladder
NumTasks == 2     \* invocations in flight at once on the global instance
MaxStored == 3    \* most analyses one user has in the database and in the local cache

(***************************************************************************)
(* Exact fractions                                                         *)
(***************************************************************************)
Rat(n, d) == [n |-> n, d |-> d]
RLt(a, b) == a.n * b.d < b.n * a.d
RLe(a, b) == a.n * b.d <= b.n * a.d
RGe(a, b) == RLe(b, a)
REq(a, b) == a.n * b.d = b.n * a.d
RSub(a, b) == Rat(a.n * b.d - b.n * a.d, a.d * b.d)
Abs(x) == IF x < 0 THEN -x ELSE x
RAbs(a) == Rat(Abs(a.n), a.d)
Min(a, b) == IF a < b THEN a ELSE b
Max(a, b) == IF a > b THEN a ELSE b

(***************************************************************************)
(* Python list helpers                                                     *)
(***************************************************************************)
\* s[a:b] with Python's clamping of negative and out-of-range indices
SliceIndex(i, n) == IF i < 0 THEN Max(n + i, 0) ELSE Min(i, n)
PySlice(s, a, b) == SubSeq(s, SliceIndex(a, Len(s)) + 1, SliceIndex(b, Len(s)))
\* s[a:]
PyFrom(s, a) == PySlice(s, a, Len(s))

RECURSIVE SumSeq(_)
SumSeq(s) == IF s = <<>> THEN 0 ELSE s[1] + SumSeq(Tail(s))

RECURSIVE SumSquares(_)
SumSquares(s) == IF s = <<>> THEN 0 ELSE s[1] * s[1] + SumSquares(Tail(s))

\* statistics.mean of a non-empty list
Mean(values) == Rat(SumSeq(values), Len(values))

\* statistics.variance (sample variance, n - 1 in the denominator), n >= 2
Variance(values) ==
    LET n == Len(values)
    IN  Rat(n * SumSquares(values) - SumSeq(values) * SumSeq(values), n * (n - 1))

\* sorted(items, key=lambda x: x[1]): stable insertion by value
RECURSIVE InsertByValue(_, _)
InsertByValue(sorted, item) ==
    IF sorted = <<>> THEN <<item>>
    ELSE IF item.value < sorted[1].value THEN <<item>> \o sorted
    ELSE <<sorted[1]>> \o InsertByValue(Tail(sorted), item)

RECURSIVE SortedByValue(_)
SortedByValue(items) ==
    IF items = <<>> THEN <<>>
    ELSE InsertByValue(SortedByValue(SubSeq(items, 1, Len(items) - 1)), items[Len(items)])

(***************************************************************************)
(* SmartSummaryService.__init__: the configuration                         *)
(***************************************************************************)
IMPROVEMENT_THRESHOLD == Rat(2, 1)
DECLINE_THRESHOLD == Rat(-2, 1)
STAGNATION_THRESHOLD == Rat(1, 2)
STAGNATION_DURATION == 14

FEATURE_RANGES ==
    [dark_circles |-> [excellent |-> 75, good |-> 60, fair |-> 45, poor |-> 30],
     puffiness    |-> [excellent |-> 70, good |-> 55, fair |-> 40, poor |-> 25],
     brightness   |-> [excellent |-> 80, good |-> 65, fair |-> 50, poor |-> 35],
     wrinkles     |-> [excellent |-> 75, good |-> 60, fair |-> 45, poor |-> 30],
     texture      |-> [excellent |-> 75, good |-> 60, fair |-> 45, poor |-> 30],
     pore_size    |-> [excellent |-> 70, good |-> 55, fair |-> 40, poor |-> 25]]

FEATURE_NAMES ==
    [dark_circles |-> "Dark Circles",
     puffiness    |-> "Eye Puffiness",
     brightness   |-> "Skin Brightness",
     wrinkles     |-> "Fine Lines",
     texture      |-> "Skin Texture",
     pore_size    |-> "Pore Size"]

\* self.FEATURE_NAMES.get(key, key)
FeatureName(key) == IF key \in DOMAIN FEATURE_NAMES THEN FEATURE_NAMES[key] ELSE key
\* self.FEATURE_RANGES.get(key, {}).get('good', 60)
GoodThreshold(key) == IF key \in DOMAIN FEATURE_RANGES THEN FEATURE_RANGES[key].good ELSE 60
\* self.FEATURE_RANGES.get(key, {}).get('excellent', 75)
ExcellentThreshold(key) ==
    IF key \in DOMAIN FEATURE_RANGES THEN FEATURE_RANGES[key].excellent ELSE 75

(***************************************************************************)
(* Samples.  A history entry is [date, features], features a mapping from  *)
(* the keys the entry carries to scores; the current sample keeps its      *)
(* features as a list of [key, value] in the mapping's iteration order.    *)
(***************************************************************************)
\* entry.get('features', {}).get(feature_key, 0)
HistGet(entry, key) == IF key \in DOMAIN entry.features THEN entry.features[key] ELSE 0
FeatureValues(period, key) == [i \in 1..Len(period) |-> HistGet(period[i], key)]

(***************************************************************************)
(* _analyze_feature_trends                                                 *)
(***************************************************************************)
RecentPeriod(h) == IF Len(h) >= 7 THEN PyFrom(h, -7) ELSE h

\* the first half of the series for every history shorter than 14
ComparisonPeriod_half(h) ==
    IF Len(h) >= 14 THEN PySlice(h, -14, -7)
    ELSE IF Len(h) > 1 THEN PySlice(h, 0, Len(h) \div 2) ELSE PySlice(h, 0, 1)

\* the samples before the recent window for every history of 7 samples or more
ComparisonPeriod_before(h) ==
    IF Len(h) >= 7
    THEN IF Len(h) >= 14 THEN PySlice(h, -14, -7) ELSE PySlice(h, 0, Len(h) - 7)
    ELSE IF Len(h) > 1 THEN PySlice(h, 0, Len(h) \div 2) ELSE PySlice(h, 0, 1)

ComparisonPeriod(h) ==
    IF Len(h) >= 7
    THEN IF Len(h) >= 14 THEN PySlice(h, -14, -7) ELSE PySlice(h, 0, 7)
    ELSE IF Len(h) > 1 THEN PySlice(h, 0, Len(h) \div 2) ELSE PySlice(h, 0, 1)

\* the ladder with the improvement boundary made exclusive (change > 2.0)
Classify_exclusive(change) ==
    IF RLt(IMPROVEMENT_THRESHOLD, change)
    THEN [trend |-> "improving",
          significance |-> IF RGe(RAbs(change), Rat(5, 1)) THEN "significant" ELSE "moderate"]
    ELSE IF RLe(change, DECLINE_THRESHOLD)
    THEN [trend |-> "declining",
          significance |-> IF RGe(RAbs(change), Rat(5, 1)) THEN "significant" ELSE "moderate"]
    ELSE IF RLe(RAbs(change), STAGNATION_THRESHOLD)
    THEN [trend |-> "stagnant", significance |-> "none"]
    ELSE [trend |-> "stable", significance |-> "minor"]

\* the ladder with 'significant' only above 5 (abs(change) > 5)
Classify_above5(change) ==
    IF RGe(change, IMPROVEMENT_THRESHOLD)
    THEN [trend |-> "improving",
          significance |-> IF RLt(Rat(5, 1), RAbs(change)) THEN "significant" ELSE "moderate"]
    ELSE IF RLe(change, DECLINE_THRESHOLD)
    THEN [trend |-> "declining",
          significance |-> IF RLt(Rat(5, 1), RAbs(change)) THEN "significant" ELSE "moderate"]
    ELSE IF RLe(RAbs(change), STAGNATION_THRESHOLD)
    THEN [trend |-> "stagnant", significance |-> "none"]
    ELSE [trend |-> "stable", significance |-> "minor"]

\* the if / elif ladder of lines 249-260: trend and significance are set together
Classify(change) ==
    IF RGe(change, IMPROVEMENT_THRESHOLD)
    THEN [trend |-> "improving",
          significance |-> IF RGe(RAbs(change), Rat(5, 1)) THEN "significant" ELSE "moderate"]
    ELSE IF RLe(change, DECLINE_THRESHOLD)
    THEN [trend |-> "declining",
          significance |-> IF RGe(RAbs(change), Rat(5, 1)) THEN "significant" ELSE "moderate"]
    ELSE IF RLe(RAbs(change), STAGNATION_THRESHOLD)
    THEN [trend |-> "stagnant", significance |-> "none"]
    ELSE [trend |-> "stable", significance |-> "minor"]

FeatureTrend(feature_key, current_value, recent_period, comparison_period) ==
    LET recent_avg == Mean(FeatureValues(recent_period, feature_key))
        previous_avg == IF comparison_period # <<>>
                        THEN Mean(FeatureValues(comparison_period, feature_key))
                        ELSE Rat(current_value, 1)
        change == RSub(recent_avg, previous_avg)
        change_percentage ==
            IF previous_avg.n # 0
            THEN Rat(100 * change.n * previous_avg.d, change.d * Abs(previous_avg.n))
            ELSE Rat(0, 1)
    IN  [feature_name      |-> feature_key,
         current_value     |-> current_value,
         previous_value    |-> previous_avg,
         change            |-> change,
         change_percentage |-> change_percentage,
         trend             |-> Classify(change).trend,
         duration_days     |-> Len(recent_period),
         significance      |-> Classify(change).significance]

\* called with a non-empty history only (statistics.mean raises on an empty one)
AnalyzeFeatureTrends(current_features, h) ==
    [i \in 1..Len(current_features) |->
        FeatureTrend(current_features[i].key, current_features[i].value,
                     RecentPeriod(h), ComparisonPeriod(h))]

(***************************************************************************)
(* _detect_significant_changes                                             *)
(***************************************************************************)
IsSignificant(t) == t.significance \in {"significant", "moderate"}
DetectSignificantChanges(trends) == SelectSeq(trends, IsSignificant)

(***************************************************************************)
(* _detect_stagnation                                                      *)
(***************************************************************************)
\* variance <= 2.0 instead of variance < 2.0
IsStagnant_inclusive(values, current_value, feature_key) ==
    LET variance == IF Len(values) > 1 THEN Variance(values) ELSE Rat(0, 1)
        total_change == Abs(values[Len(values)] - values[1])
    IN  /\ RLe(variance, Rat(2, 1))
        /\ total_change < 2
        /\ current_value < GoodThreshold(feature_key)

IsStagnant(values, current_value, feature_key) ==
    LET variance == IF Len(values) > 1 THEN Variance(values) ELSE Rat(0, 1)
        total_change == Abs(values[Len(values)] - values[1])
    IN  /\ RLt(variance, Rat(2, 1))
        /\ total_change < 2
        /\ current_value < GoodThreshold(feature_key)

\* more than 14 samples required instead of at least 14
DetectStagnation_over14(h, current_features) ==
    IF Len(h) <= STAGNATION_DURATION THEN <<>>
    ELSE LET recent_period == PyFrom(h, -STAGNATION_DURATION)
             Flagged(f) == IsStagnant(FeatureValues(recent_period, f.key), f.value, f.key)
             flagged == SelectSeq(current_features, Flagged)
         IN  [i \in 1..Len(flagged) |-> flagged[i].key]

DetectStagnation(h, current_features) ==
    IF Len(h) < STAGNATION_DURATION THEN <<>>
    ELSE LET recent_period == PyFrom(h, -STAGNATION_DURATION)
             Flagged(f) == IsStagnant(FeatureValues(recent_period, f.key), f.value, f.key)
             flagged == SelectSeq(current_features, Flagged)
         IN  [i \in 1..Len(flagged) |-> flagged[i].key]

(***************************************************************************)
(* _generate_daily_summary                                                 *)
(***************************************************************************)
IsImproving(t) == t.trend = "improving"
IsDeclining(t) == t.trend = "declining"
IsStable(t) == t.trend = "stable"

\* the second rung asking for no decline at all
DailyStatus_nodecline(improving, declining, stagnant) ==
    IF improving >= 3 /\ declining = 0 THEN "Excellent progress! "
    ELSE IF improving >= 2 /\ declining = 0 THEN "Good progress! "
    ELSE IF stagnant >= 3 THEN "Time for changes. "
    ELSE IF declining >= 2 THEN "Needs attention. "
    ELSE "Steady progress. "

DailyStatus(improving, declining, stagnant) ==
    IF improving >= 3 /\ declining = 0 THEN "Excellent progress! "
    ELSE IF improving >= 2 /\ declining <= 1 THEN "Good progress! "
    ELSE IF stagnant >= 3 THEN "Time for changes. "
    ELSE IF declining >= 2 THEN "Needs attention. "
    ELSE "Steady progress. "

GenerateDailySummary(analysis, trends, stagnant) ==
    LET improving == Len(SelectSeq(trends, IsImproving))
        declining == Len(SelectSeq(trends, IsDeclining))
    IN  [status      |-> DailyStatus(improving, declining, Len(stagnant)),
         sleep_score |-> analysis.sleep_score,
         skin_score  |-> analysis.skin_health_score,
         improving   |-> improving,
         declining   |-> declining]

\* the f-string of lines 146 and 761
WelcomeSummary(analysis) ==
    [status      |-> "Welcome! ",
     sleep_score |-> analysis.sleep_score,
     skin_score  |-> analysis.skin_health_score,
     improving   |-> 0,
     declining   |-> 0]

(***************************************************************************)
(* _generate_key_insights.  An insight string is kept as the data it is    *)
(* formatted from: its category (the emoji and wording), the display name  *)
(* of the feature and the number it embeds.                                *)
(***************************************************************************)
Insight(category, feature_key, points) ==
    [category |-> category, feature |-> FeatureName(feature_key), points |-> points]

ImprovementInsights(significant) ==
    LET sel == SelectSeq(significant, IsImproving)
    IN  [i \in 1..Len(sel) |-> Insight("improvement", sel[i].feature_name, RAbs(sel[i].change))]

DeclineInsights(significant) ==
    LET sel == SelectSeq(significant, IsDeclining)
    IN  [i \in 1..Len(sel) |-> Insight("decline", sel[i].feature_name, RAbs(sel[i].change))]

StagnationInsights(stagnant) ==
    [i \in 1..Len(stagnant) |-> Insight("stagnation", stagnant[i], Rat(0, 1))]

\* the loop of lines 391-398: an excellent feature is appended while fewer
\* than 5 insights are held
RECURSIVE AppendExcellent(_, _)
AppendExcellent(insights, trends) ==
    IF trends = <<>> THEN insights
    ELSE LET t == Head(trends)
         IN  IF t.current_value >= ExcellentThreshold(t.feature_name) /\ Len(insights) < 5
             THEN AppendExcellent(
                      Append(insights, Insight("excellence", t.feature_name, Rat(t.current_value, 1))),
                      Tail(trends))
             ELSE AppendExcellent(insights, Tail(trends))

\* stagnation alerts placed before the declines
GenerateKeyInsights_swapped(trends, significant, stagnant) ==
    LET insights == ImprovementInsights(significant) \o StagnationInsights(stagnant)
                        \o DeclineInsights(significant)
    IN  PySlice(AppendExcellent(insights, trends), 0, 6)

GenerateKeyInsights(trends, significant, stagnant) ==
    LET insights == ImprovementInsights(significant) \o DeclineInsights(significant)
                        \o StagnationInsights(stagnant)
    IN  PySlice(AppendExcellent(insights, trends), 0, 6)

\* the first two features of the sample as it is listed, without the sort
BaselineInsights_unsorted(features) ==
    LET sorted_features == PySlice(features, 0, 2)
    IN  [i \in 1..Len(sorted_features) |->
            Insight("baseline", sorted_features[i].key, Rat(sorted_features[i].value, 1))]

\* lines 112-119: one insight for each of the two lowest features
BaselineInsights(features) ==
    LET sorted_features == PySlice(SortedByValue(features), 0, 2)
    IN  [i \in 1..Len(sorted_features) |->
            Insight("baseline", sorted_features[i].key, Rat(sorted_features[i].value, 1))]

(***************************************************************************)
(* Recommendations.  A recommendation string is kept as [origin, kind,     *)
(* subject, n]: who produced it (the collaborator or the rule engine),     *)
(* which message it is, the feature it names and the number it embeds.     *)
(***************************************************************************)
Item(origin, kind, subject, n) == [origin |-> origin, kind |-> kind, subject |-> subject, n |-> n]
NoneItem == Item("none", "None", "", 0)
AiItem(kind, i) == Item("generative", kind, "", i)
AiItems(kind, count) == [i \in 1..count |-> AiItem(kind, i)]

\* a routine entry: the key is absent, holds None, or holds a number
Absent == [tag |-> "absent", v |-> 0]
Null == [tag |-> "null", v |-> 0]
Num(v) == [tag |-> "num", v |-> v]
\* routine.get(key, default)
RoutineGet(entry, default) == IF entry.tag = "absent" THEN Num(default) ELSE entry

\* _get_feature_recommendations: one message for each of the 6 known keys
GetFeatureRecommendations(feature_key, status) ==
    IF feature_key \in {"dark_circles", "puffiness", "brightness", "wrinkles", "texture", "pore_size"}
    THEN <<Item("deterministic", IF status = "declining" THEN "declining" ELSE "stagnant",
                FeatureName(feature_key), 0)>>
    ELSE <<>>

RECURSIVE Flatten(_)
Flatten(lists) == IF lists = <<>> THEN <<>> ELSE Head(lists) \o Flatten(Tail(lists))

\* _get_lifestyle_recommendation; comparing None with a number raises TypeError
GetLifestyleRecommendation(r) ==
    LET sleep_hours == RoutineGet(r.sleep_hours, 0)
        water_intake == RoutineGet(r.water_intake, 0)
        Raise == [raised |-> TRUE, value |-> NoneItem]
        Return(kind, n) == [raised |-> FALSE, value |-> Item("deterministic", kind, "", n)]
    IN  IF sleep_hours.tag = "null" THEN Raise
        ELSE IF sleep_hours.v < 6 THEN Return("lifestyle_prioritize_sleep", 0)
        ELSE IF sleep_hours.v < 7 THEN Return("lifestyle_add_hour", 0)
        ELSE IF sleep_hours.v >= 7 /\ sleep_hours.v <= 9
             THEN Return("lifestyle_maintain_sleep", sleep_hours.v)
        ELSE IF water_intake.tag = "null" THEN Raise
        ELSE IF water_intake.v < 6 THEN Return("lifestyle_water", 0)
        ELSE Return("lifestyle_general", 0)

\* the remedies for the stagnation flags placed ahead of those for the declines
RuleBasedFallback_stagnantfirst(trends, stagnant, r) ==
    LET declining == PySlice(SelectSeq(trends, IsDeclining), 0, 2)
        for_declining == Flatten([i \in 1..Len(declining) |->
                             GetFeatureRecommendations(declining[i].feature_name, "declining")])
        top_stagnant == PySlice(stagnant, 0, 2)
        for_stagnant == Flatten([i \in 1..Len(top_stagnant) |->
                            GetFeatureRecommendations(top_stagnant[i], "stagnant")])
        sleep_hours == RoutineGet(r.sleep_hours, 8)
        water_intake == RoutineGet(r.water_intake, 8)
        sleep_rec == IF sleep_hours.v < 7
                     THEN <<Item("deterministic", "sleep", "", sleep_hours.v)>> ELSE <<>>
        water_rec == IF water_intake.v < 6
                     THEN <<Item("deterministic", "water", "", water_intake.v)>> ELSE <<>>
    IN  IF sleep_hours.tag = "null" \/ water_intake.tag = "null"
        THEN [raised |-> TRUE, value |-> <<>>]
        ELSE [raised |-> FALSE,
              value |-> PySlice(for_stagnant \o for_declining \o sleep_rec \o water_rec, 0, 8)]

\* the except block of _generate_ai_recommendations (lines 541-577)
RuleBasedFallback(trends, stagnant, r) ==
    LET declining == PySlice(SelectSeq(trends, IsDeclining), 0, 2)
        for_declining == Flatten([i \in 1..Len(declining) |->
                             GetFeatureRecommendations(declining[i].feature_name, "declining")])
        top_stagnant == PySlice(stagnant, 0, 2)
        for_stagnant == Flatten([i \in 1..Len(top_stagnant) |->
                            GetFeatureRecommendations(top_stagnant[i], "stagnant")])
        sleep_hours == RoutineGet(r.sleep_hours, 8)
        water_intake == RoutineGet(r.water_intake, 8)
        sleep_rec == IF sleep_hours.v < 7
                     THEN <<Item("deterministic", "sleep", "", sleep_hours.v)>> ELSE <<>>
        water_rec == IF water_intake.v < 6
                     THEN <<Item("deterministic", "water", "", water_intake.v)>> ELSE <<>>
    IN  IF sleep_hours.tag = "null" \/ water_intake.tag = "null"
        THEN [raised |-> TRUE, value |-> <<>>]
        ELSE [raised |-> FALSE,
              value |-> PySlice(for_declining \o for_stagnant \o sleep_rec \o water_rec, 0, 8)]

(***************************************************************************)
(* The collaborator's response: the call raises, or returns None, a value  *)
(* that is not a dict, or a dict.  A field of the dict is absent, None, a  *)
(* string, or a list.  (An empty dict is falsy, and has no                 *)
(* 'recommendations' either: both tests send it to the fallback.)          *)
(***************************************************************************)
AbsentField == [tag |-> "absent", items |-> <<>>]
NullField == [tag |-> "null", items |-> <<>>]
StringField == [tag |-> "string", items |-> <<>>]
ListField(items) == [tag |-> "list", items |-> items]

Response(kind, recs, natural, products) ==
    [kind |-> kind, recommendations |-> recs, natural_remedies |-> natural,
     product_recommendations |-> products]
NoResponse == Response("pending", AbsentField, AbsentField, AbsentField)

\* ai_response.get(field, [])
FieldGet(field) == IF field.tag = "absent" THEN ListField(<<>>) ELSE field

RecResult(raised, is_dict, recs, natural, products, tip) ==
    [raised |-> raised, is_dict |-> is_dict, recommendations |-> recs,
     natural_remedies |-> natural, product_recommendations |-> products, lifestyle_tip |-> tip]

\* the collaborator's lists passed on whole, without the [:4] and [:2] cuts
GenerateAiRecommendations_uncut(resp, r, trends, stagnant) ==
    LET ai_recs == FieldGet(resp.recommendations)
        natural_rems == FieldGet(resp.natural_remedies)
        product_recs == FieldGet(resp.product_recommendations)
        lifestyle_rec == GetLifestyleRecommendation(r)
        succeeded == /\ resp.kind = "dict"
                     /\ ai_recs.tag = "list"
                     /\ Len(ai_recs.items) >= 1
                     /\ ~lifestyle_rec.raised
                     /\ natural_rems.tag = "list"
                     /\ product_recs.tag = "list"
        fallback == RuleBasedFallback(trends, stagnant, r)
    IN  IF succeeded
        THEN RecResult(FALSE, TRUE,
                       Append(ai_recs.items, lifestyle_rec.value),
                       natural_rems.items,
                       product_recs.items,
                       lifestyle_rec.value)
        ELSE RecResult(fallback.raised, FALSE, fallback.value, <<>>, <<>>, NoneItem)

\* the fallback blended with the response's split lists instead of replacing them
GenerateAiRecommendations_blend(resp, r, trends, stagnant) ==
    LET ai_recs == FieldGet(resp.recommendations)
        natural_rems == FieldGet(resp.natural_remedies)
        product_recs == FieldGet(resp.product_recommendations)
        lifestyle_rec == GetLifestyleRecommendation(r)
        succeeded == /\ resp.kind = "dict"
                     /\ ai_recs.tag = "list"
                     /\ Len(ai_recs.items) >= 1
                     /\ ~lifestyle_rec.raised
                     /\ natural_rems.tag = "list"
                     /\ product_recs.tag = "list"
        fallback == RuleBasedFallback(trends, stagnant, r)
    IN  IF succeeded
        THEN RecResult(FALSE, TRUE,
                       Append(PySlice(ai_recs.items, 0, 4), lifestyle_rec.value),
                       PySlice(natural_rems.items, 0, 2),
                       PySlice(product_recs.items, 0, 2),
                       lifestyle_rec.value)
        ELSE RecResult(fallback.raised, TRUE, fallback.value,
                       PySlice(natural_rems.items, 0, 2), PySlice(product_recs.items, 0, 2),
                       NoneItem)

\* _generate_ai_recommendations from the return of the await on (lines 502-577).
\* Every exception of the try block (the call's own, len(None), str.append,
\* None[:2], the TypeError of the lifestyle ladder) lands in the except block.
GenerateAiRecommendations(resp, r, trends, stagnant) ==
    LET ai_recs == FieldGet(resp.recommendations)
        natural_rems == FieldGet(resp.natural_remedies)
        product_recs == FieldGet(resp.product_recommendations)
        lifestyle_rec == GetLifestyleRecommendation(r)
        succeeded == /\ resp.kind = "dict"
                     /\ ai_recs.tag = "list"
                     /\ Len(ai_recs.items) >= 1
                     /\ ~lifestyle_rec.raised
                     /\ natural_rems.tag = "list"
                     /\ product_recs.tag = "list"
        fallback == RuleBasedFallback(trends, stagnant, r)
    IN  IF succeeded
        THEN RecResult(FALSE, TRUE,
                       Append(PySlice(ai_recs.items, 0, 4), lifestyle_rec.value),
                       PySlice(natural_rems.items, 0, 2),
                       PySlice(product_recs.items, 0, 2),
                       lifestyle_rec.value)
        ELSE RecResult(fallback.raised, FALSE, fallback.value, <<>>, <<>>, NoneItem)

(***************************************************************************)
(* The request sent to the collaborator (lines 457-500)                    *)
(***************************************************************************)
Variations == {"Focus on innovative skincare", "Emphasize dermatologist-approved methods",
               "Prioritize evidence-based approaches", "Consider holistic skin wellness"}

Prompt(variation, area1, value1, area2, value2) ==
    [variation |-> variation, area1 |-> area1, value1 |-> value1,
     area2 |-> area2, value2 |-> value2]
NoPrompt == Prompt("", "", 0, "", 0)

\* the sort run over the sample read backwards: equal scores come out last key first
BuildPrompt_reversed(variation, features) ==
    LET backwards == [i \in 1..Len(features) |-> features[Len(features) + 1 - i]]
        worst == PySlice(SortedByValue(backwards), 0, 2)
        area1_key == IF Len(worst) > 0 THEN worst[1].key ELSE "skin_health"
        area2_key == IF Len(worst) > 1 THEN worst[2].key ELSE "texture"
        value1 == IF Len(worst) > 0 THEN worst[1].value ELSE 0
        value2 == IF Len(worst) > 1 THEN worst[2].value ELSE 0
    IN  Prompt(variation, FeatureName(area1_key), value1, FeatureName(area2_key), value2)

BuildPrompt(variation, features) ==
    LET worst == PySlice(SortedByValue(features), 0, 2)
        area1_key == IF Len(worst) > 0 THEN worst[1].key ELSE "skin_health"
        area2_key == IF Len(worst) > 1 THEN worst[2].key ELSE "texture"
        value1 == IF Len(worst) > 0 THEN worst[1].value ELSE 0
        value2 == IF Len(worst) > 1 THEN worst[2].value ELSE 0
    IN  Prompt(variation, FeatureName(area1_key), value1, FeatureName(area2_key), value2)

(***************************************************************************)
(* The result of generate_smart_summary                                    *)
(***************************************************************************)
TrendAnalysis(improving, declining, stagnant, stable) ==
    [improving_features |-> improving, declining_features |-> declining,
     stagnant_features |-> stagnant, stable_features |-> stable]

SummaryResult(summary, insights, recs, natural, products, tip, analysis, model, points) ==
    [daily_summary |-> summary, key_insights |-> insights, recommendations |-> recs,
     natural_remedies |-> natural, product_recommendations |-> products,
     lifestyle_tip |-> tip, trend_analysis |-> analysis, model |-> model,
     provider |-> "internal + LLM", data_points_analyzed |-> points]

NoResult ==
    [daily_summary |-> [status |-> "", sleep_score |-> 0, skin_score |-> 0,
                        improving |-> 0, declining |-> 0],
     key_insights |-> <<>>, recommendations |-> <<>>, natural_remedies |-> <<>>,
     product_recommendations |-> <<>>, lifestyle_tip |-> NoneItem,
     trend_analysis |-> TrendAnalysis(<<>>, <<>>, <<>>, <<>>), model |-> "",
     provider |-> "", data_points_analyzed |-> 0]

Names(trends) == [i \in 1..Len(trends) |-> trends[i].feature_name]
Keys(features) == [i \in 1..Len(features) |-> features[i].key]

\* the baseline insights kept only when the generative path succeeded
LowDataResult_dependent(analysis, insights, rec, points) ==
    LET recommendations == IF rec.raised
                           THEN <<Item("deterministic", "take_daily_selfies", "", 0)>>
                           ELSE rec.recommendations
    IN  SummaryResult(WelcomeSummary(analysis),
                      PySlice(IF rec.lifestyle_tip = NoneItem THEN <<>> ELSE insights, 0, 5),
                      PySlice(recommendations, 0, 6),
                      IF rec.raised THEN <<>> ELSE rec.natural_remedies,
                      IF rec.raised THEN <<>> ELSE rec.product_recommendations,
                      IF rec.raised THEN NoneItem ELSE rec.lifestyle_tip,
                      TrendAnalysis(<<>>, <<>>, <<>>, Keys(analysis.features)),
                      "Hybrid (Local + AI) - TESTING MODE",
                      points)

\* lines 127-156: the low-data branch after its await
LowDataResult(analysis, insights, rec, points) ==
    LET recommendations == IF rec.raised
                           THEN <<Item("deterministic", "take_daily_selfies", "", 0)>>
                           ELSE rec.recommendations
    IN  SummaryResult(WelcomeSummary(analysis),
                      PySlice(insights, 0, 5),
                      PySlice(recommendations, 0, 6),
                      IF rec.raised THEN <<>> ELSE rec.natural_remedies,
                      IF rec.raised THEN <<>> ELSE rec.product_recommendations,
                      IF rec.raised THEN NoneItem ELSE rec.lifestyle_tip,
                      TrendAnalysis(<<>>, <<>>, <<>>, Keys(analysis.features)),
                      "Hybrid (Local + AI) - TESTING MODE",
                      points)

\* lines 182-210: the normal branch after its await (rec did not raise)
NormalResult(summary, insights, rec, trends, stagnant, points) ==
    SummaryResult(summary, insights, rec.recommendations, rec.natural_remedies,
                  rec.product_recommendations, rec.lifestyle_tip,
                  TrendAnalysis(Names(SelectSeq(trends, IsImproving)),
                                Names(SelectSeq(trends, IsDeclining)),
                                stagnant,
                                Names(SelectSeq(trends, IsStable))),
                  "Hybrid (Local + AI)",
                  points)

(***************************************************************************)
(* Inputs.  A feature's history is given by a case: the scores of its most *)
(* recent samples, newest first (tail), the score of every older sample    *)
(* (rest), the number of most recent samples that carry the key at all     *)
(* (present) and the score of the current sample (cur).                    *)
(***************************************************************************)
Ramp(top, slope, len) == [j \in 1..len |-> top - slope * (j - 1)]
Repeat(v, len) == [j \in 1..len |-> v]
Always == MaxHist + 1

Case(tail, rest, present, cur) == [tail |-> tail, rest |-> rest, present |-> present, cur |-> cur]

FeatureCases ==
    << Case(Ramp(53, 1, MaxHist + 1), 0, Always, 54),           \*  1 rising by 1 a sample
       Case(<<>>, 35, Always, 35),                              \*  2 constant, below good
       Case(Ramp(77, -1, MaxHist + 1), 0, Always, 76),          \*  3 falling by 1 a sample
       Case(<<>>, 90, Always, 90),                              \*  4 constant, excellent
       Case(<<42, 42, 42, 42, 43, 43, 43, 40, 40, 40, 40, 40, 40, 41>>, 41, Always, 42),
       Case(<<30, 36, 30, 36, 30, 36, 30, 36, 30, 36, 30, 36, 36, 30>>, 30, Always, 30),
       Case(<<42>> \o Repeat(41, 12) \o <<40>>, 41, Always, 41), \*  7 flat, ends 2 apart
       Case(Repeat(52, 7), 50, Always, 52),                     \*  8 step of +2
       Case(Repeat(48, 7), 50, Always, 48),                     \*  9 step of -2
       Case(<<51, 51>>, 50, Always, 51),                        \* 10 +0.5 over 4 samples
       Case(Repeat(51, 7), 50, Always, 51),                     \* 11 step of +1
       Case(<<>>, 50, 3, 50),                                   \* 12 key first seen 3 samples ago
       Case(<<43, 40, 40, 40, 40, 41>> \o Repeat(43, 8), 43, Always, 43), \* 13 variance 2.0
       Case(<<>>, 60, Always, 60),                              \* 14 constant at good
       Case(Repeat(55, 7), 50, Always, 55),                     \* 15 step of +5
       Case(<<52, 51, 50, 50>>, 50, Always, 52),                \* 16 +0.75 over 4 samples
       Case(<<>>, 80, Always, 80),                              \* 17 constant at 80
       Case(<<>>, 20, Always, 20),                              \* 18 constant at 20
       Case(<<>>, 55, Always, 55) >>                            \* 19 constant at 55

AllKeys == <<"dark_circles", "puffiness", "brightness", "wrinkles", "texture", "pore_size",
             "custom_zone">>

\* a configuration: which key follows which case, in the current sample's order
Assign(key, case) == [key |-> key, case |-> case]
Uniform(nf, case) == [i \in 1..nf |-> Assign(AllKeys[i], case)]
Listed(keys, cases) == [i \in 1..Len(keys) |-> Assign(keys[i], cases[i])]
MixCases == <<1, 3, 2, 4, 5, 9, 13>>
Mixed(nf, rot, shift) ==
    [i \in 1..nf |-> Assign(AllKeys[((i - 1 + rot) % Len(AllKeys)) + 1],
                             MixCases[((i - 1 + shift) % Len(MixCases)) + 1])]

Configs ==
    {<<>>}
    \cup {<<Assign("wrinkles", c)>> : c \in 1..Len(FeatureCases)}
    \cup {<<Assign("custom_zone", c)>> : c \in {2, 4}}
    \cup {Uniform(nf, c) : nf \in {6, 7}, c \in {2, 4}}
    \cup {Mixed(nf, rot, shift) : nf \in {3, 7}, rot \in {0, 3}, shift \in {0, 2}}
    \cup {Uniform(3, 1), Listed(<<"dark_circles", "puffiness", "brightness">>, <<1, 1, 3>>),
          Listed(<<"brightness", "texture", "dark_circles">>, <<17, 18, 19>>),
          Listed(<<"custom_zone", "dark_circles", "puffiness", "brightness", "wrinkles",
                   "texture">>, <<2, 2, 2, 3, 3, 1>>)}

\* every history length for a few configurations, a few lengths for all of them
CoreConfigs == {<<>>, <<Assign("dark_circles", 1)>>, Mixed(7, 0, 0)}
HistLens == {0, 1, 2, 4, 9, 14, MaxHist}
Scenarios ==
    {[config |-> c, n |-> n] : c \in CoreConfigs, n \in 0..MaxHist}
    \cup {[config |-> c, n |-> n] : c \in Configs, n \in HistLens}

\* score of the sample j places before the newest one
CaseValue(case, j) == IF j < Len(case.tail) THEN case.tail[j + 1] ELSE case.rest

HistoryEntry(config, n, i) ==
    LET j == n - i
        carried == {a \in 1..Len(config) : j < FeatureCases[config[a].case].present}
        CaseOf(key) == FeatureCases[config[CHOOSE a \in carried : config[a].key = key].case]
    IN  [date |-> i,
         features |-> [key \in {config[a].key : a \in carried} |-> CaseValue(CaseOf(key), j)]]

History(config, n) == [i \in 1..n |-> HistoryEntry(config, n, i)]

CurrentAnalysis(config) ==
    [features |-> [a \in 1..Len(config) |->
                      [key |-> config[a].key, value |-> FeatureCases[config[a].case].cur]],
     sleep_score |-> 70,
     skin_health_score |-> 65]

NoAnalysis == [features |-> <<>>, sleep_score |-> 0, skin_health_score |-> 0]

SleepEntries == {Absent, Null, Num(5), Num(6), Num(7), Num(9), Num(10)}
WaterEntries == {Absent, Null, Num(5), Num(6), Num(8)}
Routines == [sleep_hours : SleepEntries, water_intake : WaterEntries]
NoRoutine == [sleep_hours |-> Absent, water_intake |-> Absent]

Responses ==
    {Response(k, AbsentField, AbsentField, AbsentField) : k \in {"raise", "none", "list"}}
    \cup {Response("dict", f, AbsentField, AbsentField) :
              f \in {AbsentField, NullField, StringField}}
    \cup {Response("dict", ListField(<<>>), ListField(AiItems("natural_remedy", 1)),
                   ListField(AiItems("product", 1)))}
    \cup {Response("dict", ListField(AiItems("recommendation", n)), AbsentField, AbsentField) :
              n \in {1, MaxRecs}}
    \cup {Response("dict", ListField(AiItems("recommendation", n)),
                   ListField(AiItems("natural_remedy", 3)), ListField(AiItems("product", 3))) :
              n \in {4, MaxRecs}}
    \cup {Response("dict", ListField(AiItems("recommendation", 2)), NullField,
                   ListField(AiItems("product", 1)))}

(***************************************************************************)
(* State                                                                   *)
(***************************************************************************)
VARIABLES
    pc,                 \* "idle", "awaiting", "resumed", "returned", "raised", "analyzed"
    current_analysis,   \* argument
    routine,            \* argument
    historical_data,    \* argument
    branch,             \* "low" (fewer than 2 samples) or "normal"
    recent_period,      \* local of _analyze_feature_trends
    comparison_period,  \* local of _analyze_feature_trends
    feature_trends,
    significant_changes,
    stagnant_features,
    daily_summary,
    key_insights,
    prompt,             \* the request in flight
    ai_response,        \* what the await produced
    llm_calls,          \* calls of llm_service.generate_smart_summary
    result,             \* the value returned to the caller
    probe,              \* a change handed to the classification ladder, and its class
    tasks,              \* the frames of the invocations running on the global instance
    api                 \* the request in the handlers of main.py, and the two stores

vars == <<pc, current_analysis, routine, historical_data, branch, recent_period,
          comparison_period, feature_trends, significant_changes, stagnant_features,
          daily_summary, key_insights, prompt, ai_response, llm_calls, result, probe, tasks,
          api>>

args == <<current_analysis, routine, historical_data>>
locals == <<branch, recent_period, comparison_period, feature_trends, significant_changes,
            stagnant_features, daily_summary, key_insights>>

NoProbe == [applied |-> FALSE, hundredths |-> 0, trend |-> "", significance |-> ""]

\* main.py: the users, the outcomes of the storage calls of one request, and
\* the state before any request
Users == {"guest", "u1"}
StorageOutcomes == {"ok", "db_down", "save_fails", "cache_fails"}
NoRequest ==
    [pc |-> "idle", handler |-> "", user_id |-> "", history_reads |-> 0, history |-> 0,
     smart_summary |-> "unbound", variant |-> "", storage |-> "", db_calls |-> 0,
     cache_calls |-> 0, response |-> "",
     db |-> [u \in Users |-> 0], cache |-> [u \in Users |-> 0]]

\* the frame of an invocation that has not been made yet
IdleTask ==
    [pc |-> "idle", current_analysis |-> NoAnalysis, routine |-> NoRoutine,
     historical_data |-> <<>>, branch |-> "", feature_trends |-> <<>>,
     significant_changes |-> <<>>, stagnant_features |-> <<>>,
     daily_summary |-> NoResult.daily_summary, key_insights |-> <<>>,
     prompt |-> NoPrompt, ai_response |-> NoResponse, result |-> NoResult]

Init ==
    /\ pc = "idle"
    /\ current_analysis = NoAnalysis
    /\ routine = NoRoutine
    /\ historical_data = <<>>
    /\ branch = ""
    /\ recent_period = <<>>
    /\ comparison_period = <<>>
    /\ feature_trends = <<>>
    /\ significant_changes = <<>>
    /\ stagnant_features = <<>>
    /\ daily_summary = NoResult.daily_summary
    /\ key_insights = <<>>
    /\ prompt = NoPrompt
    /\ ai_response = NoResponse
    /\ llm_calls = 0
    /\ result = NoResult
    /\ probe = NoProbe
    /\ tasks = [i \in 1..NumTasks |-> IdleTask]
    /\ api = NoRequest

\* generate_smart_summary from its call to the await of the collaborator:
\* lines 103-124 in the low-data branch, lines 158-178 in the normal one,
\* then lines 456-500 of _generate_ai_recommendations.
Call(analysis, r, h, variation) ==
    /\ pc = "idle"
    /\ current_analysis' = analysis
    /\ routine' = r
    /\ historical_data' = h
    /\ IF Len(h) < 2
       THEN /\ branch' = "low"
            /\ recent_period' = <<>>
            /\ comparison_period' = <<>>
            /\ feature_trends' = <<>>
            /\ significant_changes' = <<>>
            /\ stagnant_features' = <<>>
            /\ daily_summary' = WelcomeSummary(analysis)
            /\ key_insights' = BaselineInsights(analysis.features)
       ELSE LET trends == AnalyzeFeatureTrends(analysis.features, h)
                significant == DetectSignificantChanges(trends)
                stagnant == DetectStagnation(h, analysis.features)
            IN  /\ branch' = "normal"
                /\ recent_period' = RecentPeriod(h)
                /\ comparison_period' = ComparisonPeriod(h)
                /\ feature_trends' = trends
                /\ significant_changes' = significant
                /\ stagnant_features' = stagnant
                /\ daily_summary' = GenerateDailySummary(analysis, trends, stagnant)
                /\ key_insights' = GenerateKeyInsights(trends, significant, stagnant)
    /\ prompt' = BuildPrompt(variation, analysis.features)
    /\ llm_calls' = llm_calls + 1
    /\ pc' = "awaiting"
    /\ UNCHANGED <<ai_response, result, probe, tasks, api>>

GenerateSmartSummary ==
    /\ pc = "idle"
    /\ \E sc \in Scenarios :
           \E r \in Routines, variation \in Variations :
               Call(CurrentAnalysis(sc.config), r, History(sc.config, sc.n), variation)

\* the collaborator answers the request (or its call raises)
LLMResponds ==
    /\ pc = "awaiting"
    /\ \E resp \in Responses : ai_response' = resp
    /\ prompt' = NoPrompt
    /\ pc' = "resumed"
    /\ UNCHANGED <<args, locals, llm_calls, result, probe, tasks, api>>

\* the tip appended to the collaborator's own list, cut in place to 4 items
Resume_inplace ==
    /\ pc = "resumed"
    /\ LET rec == GenerateAiRecommendations(ai_response, routine, feature_trends,
                                            stagnant_features)
       IN  /\ IF branch = "low"
              THEN /\ result' = LowDataResult(current_analysis, key_insights, rec,
                                              Len(historical_data))
                   /\ pc' = "returned"
              ELSE IF rec.raised
              THEN /\ result' = NoResult
                   /\ pc' = "raised"
              ELSE /\ result' = NormalResult(daily_summary, key_insights, rec, feature_trends,
                                             stagnant_features, Len(historical_data))
                   /\ pc' = "returned"
           /\ ai_response' = IF rec.lifestyle_tip = NoneItem THEN ai_response
                             ELSE [ai_response EXCEPT !.recommendations.items =
                                                          rec.recommendations]
    /\ UNCHANGED <<args, locals, prompt, llm_calls, probe, tasks, api>>

\* a second call of the collaborator whenever the first one did not succeed
Resume_retry ==
    /\ pc = "resumed"
    /\ LET rec == GenerateAiRecommendations(ai_response, routine, feature_trends,
                                            stagnant_features)
       IN  /\ IF branch = "low"
              THEN /\ result' = LowDataResult(current_analysis, key_insights, rec,
                                              Len(historical_data))
                   /\ pc' = "returned"
              ELSE IF rec.raised
              THEN /\ result' = NoResult
                   /\ pc' = "raised"
              ELSE /\ result' = NormalResult(daily_summary, key_insights, rec, feature_trends,
                                             stagnant_features, Len(historical_data))
                   /\ pc' = "returned"
           /\ llm_calls' = IF rec.lifestyle_tip = NoneItem THEN llm_calls + 1 ELSE llm_calls
    /\ UNCHANGED <<args, locals, prompt, ai_response, probe, tasks, api>>

\* generate_smart_summary from the return of the await to its end
Resume ==
    /\ pc = "resumed"
    /\ LET rec == GenerateAiRecommendations(ai_response, routine, feature_trends,
                                            stagnant_features)
       IN  IF branch = "low"
           THEN /\ result' = LowDataResult(current_analysis, key_insights, rec,
                                           Len(historical_data))
                /\ pc' = "returned"
           ELSE IF rec.raised
           THEN /\ result' = NoResult
                /\ pc' = "raised"
           ELSE /\ result' = NormalResult(daily_summary, key_insights, rec, feature_trends,
                                          stagnant_features, Len(historical_data))
                /\ pc' = "returned"
    /\ UNCHANGED <<args, locals, prompt, ai_response, llm_calls, probe, tasks, api>>

Next == GenerateSmartSummary \/ LLMResponds \/ Resume

Spec == Init /\ [][Next]_vars

\* The same calls over a few inputs, for the check of progress.
GenerateSmartSummaryOnce ==
    /\ pc = "idle"
    /\ \E config \in CoreConfigs, n \in {0, 2, 14} :
           \E r \in Routines, variation \in Variations :
               Call(CurrentAnalysis(config), r, History(config, n), variation)

LiveNext == GenerateSmartSummaryOnce \/ LLMResponds \/ Resume

\* The event loop runs a coroutine that can run: the call is made, and a
\* coroutine whose await has produced a value is resumed.  Nothing makes the
\* collaborator answer, and lines 496-500 await it without a timeout.
LiveSpec ==
    Init /\ [][LiveNext]_vars /\ WF_vars(GenerateSmartSummaryOnce) /\ WF_vars(Resume)

(***************************************************************************)
(* The classification ladder on its own: lines 249-260 applied to a change *)
(* given in hundredths of a point.                                         *)
(***************************************************************************)
ClassifyChange(c) ==
    /\ probe' = [applied |-> TRUE, hundredths |-> c,
                 trend |-> Classify(Rat(c, 100)).trend,
                 significance |-> Classify(Rat(c, 100)).significance]
    /\ UNCHANGED <<pc, args, locals, prompt, ai_response, llm_calls, result, tasks, api>>

ClassifyNext == \E c \in -ProbeMax..ProbeMax : ClassifyChange(c)

ClassifySpec == Init /\ [][ClassifyNext]_vars

(***************************************************************************)
(* _analyze_feature_trends on its own, on every history length from 0:     *)
(* generate_smart_summary calls it with 2 samples or more only.  On an     *)
(* empty history both windows are empty and statistics.mean of the recent  *)
(* one (line 231) raises StatisticsError for the first feature; a sample   *)
(* without features never reaches it.                                      *)
(***************************************************************************)
\* the default of line 238 taken for every feature, the means left out
AnalyzeOnly_default(analysis, h) ==
    /\ pc = "idle"
    /\ current_analysis' = analysis
    /\ historical_data' = h
    /\ recent_period' = RecentPeriod(h)
    /\ comparison_period' = ComparisonPeriod(h)
    /\ feature_trends' =
           IF h = <<>>
           THEN [i \in 1..Len(analysis.features) |->
                    [feature_name      |-> analysis.features[i].key,
                     current_value     |-> analysis.features[i].value,
                     previous_value    |-> Rat(analysis.features[i].value, 1),
                     change            |-> Rat(0, 1),
                     change_percentage |-> Rat(0, 1),
                     trend             |-> "stagnant",
                     duration_days     |-> 0,
                     significance      |-> "none"]]
           ELSE AnalyzeFeatureTrends(analysis.features, h)
    /\ pc' = "analyzed"
    /\ UNCHANGED <<routine, branch, significant_changes, stagnant_features, daily_summary,
                   key_insights, prompt, ai_response, llm_calls, result, probe, tasks, api>>

AnalyzeOnly(analysis, h) ==
    /\ pc = "idle"
    /\ current_analysis' = analysis
    /\ historical_data' = h
    /\ recent_period' = RecentPeriod(h)
    /\ comparison_period' = ComparisonPeriod(h)
    /\ IF h = <<>> /\ analysis.features # <<>>
       THEN /\ feature_trends' = <<>>
            /\ pc' = "raised"
       ELSE /\ feature_trends' = AnalyzeFeatureTrends(analysis.features, h)
            /\ pc' = "analyzed"
    /\ UNCHANGED <<routine, branch, significant_changes, stagnant_features, daily_summary,
                   key_insights, prompt, ai_response, llm_calls, result, probe, tasks, api>>

AnalyzeNext ==
    \E config \in Configs, n \in 0..MaxHist :
        AnalyzeOnly(CurrentAnalysis(config), History(config, n))

AnalyzeSpec == Init /\ [][AnalyzeNext]_vars

(***************************************************************************)
(* Several invocations on the global instance of line 777.  asyncio runs   *)
(* one coroutine at a time and switches at an await only, so an invocation *)
(* is the same two steps, with the steps of the others in between.  All    *)
(* that generate_smart_summary and its helpers write are their own         *)
(* arguments and locals: the instance is written by __init__ alone.        *)
(***************************************************************************)
ConcInputs ==
    {[config |-> <<Assign("dark_circles", 1)>>, n |-> 0,
      routine |-> [sleep_hours |-> Num(5), water_intake |-> Num(8)]],
     [config |-> Listed(<<"brightness", "texture", "dark_circles">>, <<17, 18, 19>>), n |-> 1,
      routine |-> [sleep_hours |-> Absent, water_intake |-> Absent]],
     [config |-> Mixed(7, 0, 0), n |-> 14,
      routine |-> [sleep_hours |-> Num(10), water_intake |-> Num(5)]],
     [config |-> Mixed(7, 0, 0), n |-> 14,
      routine |-> [sleep_hours |-> Null, water_intake |-> Num(8)]]}

ConcResponses ==
    {Response("raise", AbsentField, AbsentField, AbsentField),
     Response("dict", ListField(<<>>), ListField(AiItems("natural_remedy", 1)),
              ListField(AiItems("product", 1))),
     Response("dict", StringField, AbsentField, AbsentField),
     Response("dict", ListField(AiItems("recommendation", 1)), AbsentField, AbsentField),
     Response("dict", ListField(AiItems("recommendation", MaxRecs)),
              ListField(AiItems("natural_remedy", 3)), ListField(AiItems("product", 3)))}

\* the frame at the await: the arguments and the locals computed before it
StartedTask(analysis, r, h, variation) ==
    LET trends == AnalyzeFeatureTrends(analysis.features, h)
        significant == DetectSignificantChanges(trends)
        stagnant == DetectStagnation(h, analysis.features)
        low == Len(h) < 2
    IN  [pc |-> "awaiting", current_analysis |-> analysis, routine |-> r,
         historical_data |-> h,
         branch |-> IF low THEN "low" ELSE "normal",
         feature_trends |-> IF low THEN <<>> ELSE trends,
         significant_changes |-> IF low THEN <<>> ELSE significant,
         stagnant_features |-> IF low THEN <<>> ELSE stagnant,
         daily_summary |-> IF low THEN WelcomeSummary(analysis)
                           ELSE GenerateDailySummary(analysis, trends, stagnant),
         key_insights |-> IF low THEN BaselineInsights(analysis.features)
                          ELSE GenerateKeyInsights(trends, significant, stagnant),
         prompt |-> BuildPrompt(variation, analysis.features),
         ai_response |-> NoResponse, result |-> NoResult]

CallTask(i) ==
    /\ tasks[i].pc = "idle"
    /\ \E inp \in ConcInputs, variation \in Variations :
           tasks' = [tasks EXCEPT ![i] = StartedTask(CurrentAnalysis(inp.config), inp.routine,
                                                     History(inp.config, inp.n), variation)]
    /\ UNCHANGED <<pc, args, locals, prompt, ai_response, llm_calls, result, probe, api>>

RespondTask(i) ==
    /\ tasks[i].pc = "awaiting"
    /\ \E resp \in ConcResponses :
           tasks' = [tasks EXCEPT ![i].ai_response = resp, ![i].prompt = NoPrompt,
                                  ![i].pc = "resumed"]
    /\ UNCHANGED <<pc, args, locals, prompt, ai_response, llm_calls, result, probe, api>>

\* the response read from where the next invocation keeps its own, as if the
\* await stored it on the shared instance
ResumeTask_shared(i) ==
    /\ tasks[i].pc = "resumed"
    /\ LET t == tasks[i]
           rec == GenerateAiRecommendations(tasks[(i % NumTasks) + 1].ai_response, t.routine,
                                            t.feature_trends, t.stagnant_features)
       IN  tasks' = [tasks EXCEPT ![i] =
               IF t.branch = "low"
               THEN [t EXCEPT !.pc = "returned",
                              !.result = LowDataResult(t.current_analysis, t.key_insights, rec,
                                                       Len(t.historical_data))]
               ELSE IF rec.raised
               THEN [t EXCEPT !.pc = "raised", !.result = NoResult]
               ELSE [t EXCEPT !.pc = "returned",
                              !.result = NormalResult(t.daily_summary, t.key_insights, rec,
                                                      t.feature_trends, t.stagnant_features,
                                                      Len(t.historical_data))]]
    /\ UNCHANGED <<pc, args, locals, prompt, ai_response, llm_calls, result, probe, api>>

ResumeTask(i) ==
    /\ tasks[i].pc = "resumed"
    /\ LET t == tasks[i]
           rec == GenerateAiRecommendations(t.ai_response, t.routine,
                                            t.feature_trends, t.stagnant_features)
       IN  tasks' = [tasks EXCEPT ![i] =
               IF t.branch = "low"
               THEN [t EXCEPT !.pc = "returned",
                              !.result = LowDataResult(t.current_analysis, t.key_insights, rec,
                                                       Len(t.historical_data))]
               ELSE IF rec.raised
               THEN [t EXCEPT !.pc = "raised", !.result = NoResult]
               ELSE [t EXCEPT !.pc = "returned",
                              !.result = NormalResult(t.daily_summary, t.key_insights, rec,
                                                      t.feature_trends, t.stagnant_features,
                                                      Len(t.historical_data))]]
    /\ UNCHANGED <<pc, args, locals, prompt, ai_response, llm_calls, result, probe, api>>

ConcNext == \E i \in 1..NumTasks : CallTask(i) \/ RespondTask(i) \/ ResumeTask(i)

ConcSpec == Init /\ [][ConcNext]_vars

(***************************************************************************)
(* main.py: analyze_face (lines 277-418) and get_daily_summary (lines      *)
(* 486-560), one request after the other.  api.db and api.cache count the  *)
(* analyses save_analysis and save_analysis_data have stored for a user;   *)
(* get_user_history returns what the local cache holds.  A call of         *)
(* generate_smart_summary can raise in its normal branch only (2 samples   *)
(* or more), and every collaborator of the handlers can raise.             *)
(***************************************************************************)
single == <<pc, args, locals, prompt, ai_response, llm_calls, result, probe, tasks>>

ApiReady == api.pc \in {"idle", "done"}

\* lines 286-303 and 385-418: the image is read and analysed; an analysis
\* that raises ends the request with an HTTP error
AnalyzeFace(user, image_ok) ==
    /\ ApiReady
    /\ api.db[user] < MaxStored
    /\ api' = [api EXCEPT !.pc = IF image_ok THEN "analysed" ELSE "done",
                          !.handler = "analyze_face", !.user_id = user,
                          !.history_reads = 0, !.history = 0,
                          !.smart_summary = "unbound", !.variant = "", !.storage = "",
                          !.db_calls = 0, !.cache_calls = 0,
                          !.response = IF image_ok THEN "" ELSE "http_error"]
    /\ UNCHANGED single

\* lines 306-343: the history is read (not for a guest) and the summary is
\* generated; an exception of either leaves the local smart_summary unbound
AnalyzeFaceSummary ==
    /\ api.pc = "analysed"
    /\ \E retrieval_ok, summary_ok \in BOOLEAN :
           LET guest == api.user_id = "guest"
               n == IF guest THEN 0 ELSE api.cache[api.user_id]
               called == guest \/ retrieval_ok
               bound == called /\ (summary_ok \/ n < 2)
           IN  api' = [api EXCEPT !.pc = "summarised",
                                  !.history_reads = IF guest THEN 0 ELSE 1,
                                  !.history = IF called THEN n ELSE 0,
                                  !.variant = IF ~called THEN ""
                                              ELSE IF n < 2 THEN "low" ELSE "normal",
                                  !.smart_summary = IF bound THEN "bound" ELSE "unbound",
                                  !.response = IF bound THEN "analysis+summary"
                                               ELSE "analysis"]
    /\ UNCHANGED single

\* the storage block without the test for the guest user
AnalyzeFaceStore_all ==
    /\ api.pc = "summarised"
    /\ \E storage \in StorageOutcomes :
           LET user == api.user_id
               built == storage # "db_down" /\ api.smart_summary = "bound"
               saved == built /\ storage # "save_fails"
               cached == saved /\ storage # "cache_fails"
           IN  api' = [api EXCEPT !.pc = "done",
                                  !.storage = storage,
                                  !.db_calls = IF built THEN 1 ELSE 0,
                                  !.cache_calls = IF saved THEN 1 ELSE 0,
                                  !.db[user] = IF saved THEN @ + 1 ELSE @,
                                  !.cache[user] = IF cached THEN @ + 1 ELSE @]
    /\ UNCHANGED single

\* lines 345-384: the storage block.  For a registered user get_database is
\* awaited, the record is built (line 359 reads smart_summary: unbound, it
\* raises UnboundLocalError), save_analysis is awaited and then
\* save_analysis_data is called; the first exception ends the block at line
\* 376 and the analysis is returned in every case.
AnalyzeFaceStore ==
    /\ api.pc = "summarised"
    /\ IF api.user_id = "guest"
       THEN api' = [api EXCEPT !.pc = "done"]
       ELSE \E storage \in StorageOutcomes :
                LET user == api.user_id
                    built == storage # "db_down" /\ api.smart_summary = "bound"
                    saved == built /\ storage # "save_fails"
                    cached == saved /\ storage # "cache_fails"
                IN  api' = [api EXCEPT !.pc = "done",
                                       !.storage = storage,
                                       !.db_calls = IF built THEN 1 ELSE 0,
                                       !.cache_calls = IF saved THEN 1 ELSE 0,
                                       !.db[user] = IF saved THEN @ + 1 ELSE @,
                                       !.cache[user] = IF cached THEN @ + 1 ELSE @]
    /\ UNCHANGED single

\* lines 486-560: the history is read (not for a guest), the summary is
\* generated from the latest stored analysis or from the mock one, and an
\* exception of either is answered with the basic summary
GetDailySummary(user) ==
    /\ ApiReady
    /\ \E retrieval_ok, summary_ok \in BOOLEAN :
           LET guest == user = "guest"
               n == IF guest THEN 0 ELSE api.cache[user]
               called == guest \/ retrieval_ok
               returned == called /\ (summary_ok \/ n < 2)
           IN  api' = [api EXCEPT !.pc = "done",
                                  !.handler = "get_daily_summary", !.user_id = user,
                                  !.history_reads = IF guest THEN 0 ELSE 1,
                                  !.history = IF called THEN n ELSE 0,
                                  !.variant = IF ~called THEN ""
                                              ELSE IF n < 2 THEN "low" ELSE "normal",
                                  !.smart_summary = IF returned THEN "bound" ELSE "unbound",
                                  !.storage = "", !.db_calls = 0, !.cache_calls = 0,
                                  !.response = IF returned THEN "summary" ELSE "basic"]
    /\ UNCHANGED single

ApiNext ==
    \/ \E user \in Users, image_ok \in BOOLEAN : AnalyzeFace(user, image_ok)
    \/ AnalyzeFaceSummary
    \/ AnalyzeFaceStore
    \/ \E user \in Users : GetDailySummary(user)

ApiSpec == Init /\ [][ApiNext]_vars

(***************************************************************************)
(* Properties                                                              *)
(***************************************************************************)
Range(s) == {s[i] : i \in 1..Len(s)}

\* the collaborator outcomes the fallback is promised for: the call raised,
\* returned None or a non-dict, or a dict without a non-empty 'recommendations'
CollaboratorFailed(resp) ==
    \/ resp.kind \in {"raise", "none", "list"}
    \/ /\ resp.kind = "dict"
       /\ \/ resp.recommendations.tag = "absent"
          \/ resp.recommendations.tag = "list" /\ resp.recommendations.items = <<>>

\* C1: a result returned after a failed collaborator call carries only
\* deterministic recommendations, at most 8 of them, no natural remedies, no
\* product recommendations and no lifestyle tip.
T_C1 ==
    (pc = "returned" /\ CollaboratorFailed(ai_response)) =>
        /\ \A i \in 1..Len(result.recommendations) :
               result.recommendations[i].origin = "deterministic"
        /\ Len(result.recommendations) <= 8
        /\ result.natural_remedies = <<>>
        /\ result.product_recommendations = <<>>
        /\ result.lifestyle_tip = NoneItem

\* a dict with an empty 'recommendations' but non-empty split lists was
\* answered, and the result holds four or more rule-engine recommendations
W_C1 ==
    /\ pc = "returned"
    /\ ai_response.kind = "dict"
    /\ ai_response.recommendations = ListField(<<>>)
    /\ ai_response.natural_remedies.items # <<>>
    /\ Len(result.recommendations) >= 4
    /\ result.natural_remedies = <<>>

\* C2: no exception reaches the caller of generate_smart_summary.
O_C2 == pc # "raised"

\* C3: every invocation that awaits the collaborator eventually completes.
O_C3 == (pc = "awaiting") ~> (pc \in {"returned", "raised"})

RisingSeries == [i \in 1..14 |-> 39 + i]

\* C5: improving and declining trends are significant iff |change| >= 5 and
\* moderate otherwise, stagnant trends have significance none, stable trends
\* minor; a feature rising 40..53 over 14 samples is improving / significant.
T_C5 ==
    \A i \in 1..Len(feature_trends) :
        LET t == feature_trends[i]
        IN  /\ t.trend \in {"improving", "declining"} =>
                   t.significance = IF Abs(t.change.n) >= 5 * t.change.d
                                    THEN "significant" ELSE "moderate"
            /\ t.trend = "stagnant" => t.significance = "none"
            /\ t.trend = "stable" => t.significance = "minor"
            /\ FeatureValues(historical_data, t.feature_name) = RisingSeries =>
                   t.trend = "improving" /\ t.significance = "significant"

\* the rising scenario was analysed, with a change of exactly 7
W_C5 ==
    \E i \in 1..Len(feature_trends) :
        /\ FeatureValues(historical_data, feature_trends[i].feature_name) = RisingSeries
        /\ feature_trends[i].change.n = 7 * feature_trends[i].change.d
        /\ feature_trends[i].significance = "significant"

Dates(period) == [i \in 1..Len(period) |-> period[i].date]
\* the dates lo, lo + 1, ..., hi (none when hi < lo)
Span(lo, hi) == [i \in 1..(hi - lo + 1) |-> lo + i - 1]

\* C6 as stated: the recent window is the last min(7, N) samples; the
\* comparison window is the 7 samples before it when N >= 14 and the first
\* floor(N/2) samples for every N < 14.
O_C6 ==
    branch = "normal" =>
        LET N == Len(historical_data)
        IN  /\ Dates(recent_period) = Span(N - Min(7, N) + 1, N)
            /\ Dates(comparison_period) = IF N >= 14 THEN Span(N - 13, N - 7)
                                          ELSE Span(1, N \div 2)

\* C6 amended: the recent window is the last min(7, N) samples; the
\* comparison window is the 7 samples before it when N >= 14, the first 7
\* samples of the series when 7 <= N < 14, the first floor(N/2) samples when
\* 2 <= N < 7, and the single first sample of a one-sample series.
T_C6 ==
    /\ branch = "normal" =>
           LET N == Len(historical_data)
           IN  /\ Dates(recent_period) = Span(N - Min(7, N) + 1, N)
               /\ Dates(comparison_period) = IF N >= 14 THEN Span(N - 13, N - 7)
                                             ELSE IF N >= 7 THEN Span(1, 7)
                                             ELSE Span(1, N \div 2)
    /\ Len(historical_data) >= 1 =>
           Dates(ComparisonPeriod(SubSeq(historical_data, 1, 1))) = <<1>>

\* nine samples were analysed: the comparison window is samples 1..7 and the
\* recent window samples 3..9
W_C6 ==
    /\ branch = "normal"
    /\ Len(historical_data) = 9
    /\ Dates(comparison_period) = Span(1, 7)
    /\ Dates(recent_period) = Span(3, 9)

\* the feature's values over the last 14 samples, oldest first
Last14(key) ==
    [i \in 1..14 |-> HistGet(historical_data[Len(historical_data) - 14 + i], key)]
\* 14^2 times the sum of squared deviations from the mean
Spread14(values) == SumSeq([i \in 1..14 |-> (14 * values[i] - SumSeq(values)) * (14 * values[i] - SumSeq(values))])
\* sample variance < 2.0, i.e. sum of squared deviations < 2 * 13
LowVariance14(values) == Spread14(values) < 2 * 13 * 14 * 14

\* C7: a feature of the current sample is flagged stagnant iff the history
\* has at least 14 samples and over the last 14 its variance is < 2.0, its
\* last and first values differ by < 2.0 and its current value is below its
\* good threshold.
T_C7 ==
    pc # "idle" =>
        \A i \in 1..Len(current_analysis.features) :
            LET f == current_analysis.features[i]
            IN  (f.key \in Range(stagnant_features)) <=>
                    /\ Len(historical_data) >= 14
                    /\ LowVariance14(Last14(f.key))
                    /\ Abs(Last14(f.key)[14] - Last14(f.key)[1]) < 2
                    /\ f.value < GoodThreshold(f.key)

\* one feature is flagged, and another, whose window starts and ends on the
\* same value below its good threshold, is not: its variance is 2.0 or more
W_C7 ==
    /\ Len(historical_data) >= 14
    /\ stagnant_features # <<>>
    /\ \E i \in 1..Len(current_analysis.features) :
           LET f == current_analysis.features[i]
           IN  /\ f.key \notin Range(stagnant_features)
               /\ Last14(f.key)[14] = Last14(f.key)[1]
               /\ f.value < GoodThreshold(f.key)

\* the feature is carried by each of the last 14 samples with the value v
ConstantOver14(key, v) ==
    /\ Len(historical_data) >= 14
    /\ \A i \in (Len(historical_data) - 13)..Len(historical_data) :
           /\ key \in DOMAIN historical_data[i].features
           /\ historical_data[i].features[key] = v

\* C8: a feature constant over the 14-sample window at a value below its
\* good threshold is flagged by the stagnation detector.
T_C8 ==
    pc # "idle" =>
        \A i \in 1..Len(current_analysis.features) :
            LET f == current_analysis.features[i]
            IN  (ConstantOver14(f.key, f.value) /\ f.value < GoodThreshold(f.key)) =>
                    f.key \in Range(stagnant_features)

\* wrinkles constant at 35 for exactly 14 samples, and flagged
W_C8 ==
    /\ Len(historical_data) = 14
    /\ \E i \in 1..Len(current_analysis.features) :
           /\ current_analysis.features[i] = [key |-> "wrinkles", value |-> 35]
           /\ ConstantOver14("wrinkles", 35)
    /\ "wrinkles" \in Range(stagnant_features)

CategoryRank(category) ==
    CASE category = "improvement" -> 1
      [] category = "decline" -> 2
      [] category = "stagnation" -> 3
      [] category = "excellence" -> 4
      [] OTHER -> 5

\* an insight of the category about the feature is in key_insights, or the
\* list is full of insights of that priority or a higher one
PresentOrCutOff(category, feature_key) ==
    \/ \E i \in 1..Len(key_insights) :
           /\ key_insights[i].category = category
           /\ key_insights[i].feature = FeatureName(feature_key)
    \/ /\ Len(key_insights) = 6
       /\ \A i \in 1..6 : CategoryRank(key_insights[i].category) <= CategoryRank(category)

\* C9: key_insights of the normal branch lists improvements, then declines,
\* then stagnation alerts, then excellent features; every significant or
\* moderate improving / declining trend and every stagnation flag is present
\* unless the 6-entry cap cut it off.
T_C9 ==
    branch = "normal" =>
        /\ \A i, j \in 1..Len(key_insights) :
               i < j => CategoryRank(key_insights[i].category)
                            <= CategoryRank(key_insights[j].category)
        /\ \A i \in 1..Len(key_insights) : CategoryRank(key_insights[i].category) <= 4
        /\ \A i \in 1..Len(feature_trends) :
               LET t == feature_trends[i]
               IN  /\ (t.trend = "improving" /\ t.significance \in {"significant", "moderate"})
                          => PresentOrCutOff("improvement", t.feature_name)
                   /\ (t.trend = "declining" /\ t.significance \in {"significant", "moderate"})
                          => PresentOrCutOff("decline", t.feature_name)
        /\ \A i \in 1..Len(stagnant_features) :
               PresentOrCutOff("stagnation", stagnant_features[i])

\* one list holds an insight of each of the four categories
W_C9 ==
    /\ branch = "normal"
    /\ \A c \in {"improvement", "decline", "stagnation", "excellence"} :
           \E i \in 1..Len(key_insights) : key_insights[i].category = c

\* the number of current features at or above their excellent threshold
ExcellentCount ==
    Cardinality({i \in 1..Len(current_analysis.features) :
                    current_analysis.features[i].value
                        >= ExcellentThreshold(current_analysis.features[i].key)})
\* the number of improvement, decline and stagnation insights due
PriorityCount ==
    Cardinality({i \in 1..Len(feature_trends) :
                    /\ feature_trends[i].trend \in {"improving", "declining"}
                    /\ feature_trends[i].significance \in {"significant", "moderate"}})
        + Len(stagnant_features)

\* C10: with k < 6 improvement, decline and stagnation insights, excellent
\* features are appended until the list holds 6 entries or none remains.
O_C10 ==
    (branch = "normal" /\ PriorityCount < 6) =>
        Len(key_insights) = Min(6, PriorityCount + ExcellentCount)

(***************************************************************************)
(* C11: every result that generate_smart_summary returns keeps its lists   *)
(* within bounds: at most 6 key insights, at most 8 recommendations and    *)
(* at most 5 when the generative path succeeded (a lifestyle tip is        *)
(* present exactly then), at most 2 natural remedies, at most 2 product    *)
(* recommendations, and lifestyle_tip is None or one rule-engine string.   *)
(***************************************************************************)
GenerativeSucceeded == result.lifestyle_tip # NoneItem

T_C11 ==
    pc = "returned" =>
        /\ Len(result.key_insights) <= 6
        /\ Len(result.recommendations) <= 8
        /\ GenerativeSucceeded => Len(result.recommendations) <= 5
        /\ Len(result.natural_remedies) <= 2
        /\ Len(result.product_recommendations) <= 2
        /\ \/ result.lifestyle_tip = NoneItem
           \/ result.lifestyle_tip.origin = "deterministic"

\* the collaborator offered more than the caps allow and the result is cut to them
W_C11 ==
    /\ pc = "returned"
    /\ Len(ai_response.recommendations.items) = MaxRecs
    /\ Len(ai_response.natural_remedies.items) = 3
    /\ Len(ai_response.product_recommendations.items) = 3
    /\ Len(result.recommendations) = 5
    /\ Len(result.natural_remedies) = 2
    /\ Len(result.product_recommendations) = 2
    /\ Len(result.key_insights) = 6
    /\ GenerativeSucceeded

(***************************************************************************)
(* C12 as stated: the focus of the request is the two lowest-scoring       *)
(* features of the current sample in ascending score order, a tie being    *)
(* decided by the order of the feature keys, whatever order the sample     *)
(* lists them in.                                                          *)
(***************************************************************************)
KeyOrder == <<"brightness", "custom_zone", "dark_circles", "pore_size", "puffiness",
              "texture", "wrinkles">>
KeyRank(key) == CHOOSE i \in 1..Len(KeyOrder) : KeyOrder[i] = key

\* how many features of the sample come before its i-th one, ties by key order
AheadByKey(features, i) ==
    Cardinality({j \in 1..Len(features) :
        \/ features[j].value < features[i].value
        \/ /\ features[j].value = features[i].value
           /\ KeyRank(features[j].key) < KeyRank(features[i].key)})

\* how many come before its i-th one, ties by the position in the sample
AheadByPosition(features, i) ==
    Cardinality({j \in 1..Len(features) :
        \/ features[j].value < features[i].value
        \/ features[j].value = features[i].value /\ j < i})

FocusIs(first, second) ==
    /\ prompt.area1 = FeatureName(first.key) /\ prompt.value1 = first.value
    /\ prompt.area2 = FeatureName(second.key) /\ prompt.value2 = second.value

O_C12 ==
    pc = "awaiting" /\ Len(current_analysis.features) >= 2 =>
        LET features == current_analysis.features
        IN  \A i, j \in 1..Len(features) :
                AheadByKey(features, i) = 0 /\ AheadByKey(features, j) = 1
                    => FocusIs(features[i], features[j])

(***************************************************************************)
(* C12, amended: the focus is the two lowest-scoring features in ascending *)
(* score order, and features with equal scores keep the order in which     *)
(* the current sample lists them.                                          *)
(***************************************************************************)
T_C12 ==
    pc = "awaiting" /\ Len(current_analysis.features) >= 2 =>
        LET features == current_analysis.features
        IN  \A i, j \in 1..Len(features) :
                AheadByPosition(features, i) = 0 /\ AheadByPosition(features, j) = 1
                    => FocusIs(features[i], features[j])

\* a request whose two lowest scores tie, listed against the order of their keys
W_C12 ==
    /\ pc = "awaiting"
    /\ Len(current_analysis.features) >= 3
    /\ \A i \in 1..Len(current_analysis.features) :
           current_analysis.features[i].value = current_analysis.features[1].value
    /\ current_analysis.features[1].key = "dark_circles"
    /\ current_analysis.features[2].key = "puffiness"
    /\ prompt.area1 = FeatureName("dark_circles")
    /\ prompt.area2 = FeatureName("puffiness")

(***************************************************************************)
(* C13: when the collaborator has returned a dict with a non-empty         *)
(* 'recommendations' list, the call returns, and its recommendations are   *)
(* the first min(4, n) items of that list in their order followed by one   *)
(* rule-engine lifestyle tip, which is also the result's lifestyle_tip.    *)
(* (A dict whose natural_remedies or product_recommendations is not a list *)
(* is taken as malformed and left out.)                                    *)
(***************************************************************************)
Finished == pc \in {"returned", "raised"}

CollaboratorSucceeded(resp) ==
    /\ resp.kind = "dict"
    /\ resp.recommendations.tag = "list"
    /\ resp.recommendations.items # <<>>
    /\ resp.natural_remedies.tag \in {"absent", "list"}
    /\ resp.product_recommendations.tag \in {"absent", "list"}

LifestyleKinds == {"lifestyle_prioritize_sleep", "lifestyle_add_hour",
                   "lifestyle_maintain_sleep", "lifestyle_water", "lifestyle_general"}

O_C13 ==
    Finished /\ CollaboratorSucceeded(ai_response) =>
        LET items == ai_response.recommendations.items
            kept == IF Len(items) < 4 THEN Len(items) ELSE 4
        IN  /\ pc = "returned"
            /\ Len(result.recommendations) = kept + 1
            /\ SubSeq(result.recommendations, 1, kept) = SubSeq(items, 1, kept)
            /\ result.recommendations[kept + 1] = result.lifestyle_tip
            /\ result.lifestyle_tip.origin = "deterministic"
            /\ result.lifestyle_tip.kind \in LifestyleKinds

(***************************************************************************)
(* C14: the lifestyle tip of a successful generative path is the first     *)
(* match of the ladder sleep_hours < 6: prioritize sleep; < 7: add an      *)
(* hour; 7..9: maintain; else water_intake < 6: increase water; else       *)
(* general encouragement.  Sleep goes before water, and one message is     *)
(* produced for every routine.                                             *)
(***************************************************************************)
LadderKind(sleep, water) ==
    CASE sleep < 6 -> "lifestyle_prioritize_sleep"
      [] sleep >= 6 /\ sleep < 7 -> "lifestyle_add_hour"
      [] sleep >= 7 /\ sleep <= 9 -> "lifestyle_maintain_sleep"
      [] sleep > 9 /\ water < 6 -> "lifestyle_water"
      [] sleep > 9 /\ water >= 6 -> "lifestyle_general"

O_C14 ==
    Finished /\ CollaboratorSucceeded(ai_response) =>
        /\ result.lifestyle_tip.kind \in LifestyleKinds
        /\ routine.sleep_hours.tag = "num" /\ routine.water_intake.tag = "num"
               => result.lifestyle_tip.kind =
                      LadderKind(routine.sleep_hours.v, routine.water_intake.v)

(***************************************************************************)
(* C15: the list of the rule engine, whenever it is built, is the remedy   *)
(* of each of the first two declining trends, then the remedy of each of   *)
(* the first two stagnation flags (a remedy exists for the 6 known keys    *)
(* only), then a sleep recommendation iff sleep_hours < 7, then a water    *)
(* recommendation iff water_intake < 6, cut to 8 entries.                  *)
(***************************************************************************)
KnownKeys == {"dark_circles", "puffiness", "brightness", "wrinkles", "texture", "pore_size"}

FirstTwo(s) == SubSeq(s, 1, IF Len(s) < 2 THEN Len(s) ELSE 2)

Remedies(keys, status) ==
    LET known == SelectSeq(keys, LAMBDA k : k \in KnownKeys)
    IN  [i \in 1..Len(known) |-> Item("deterministic", status, FeatureName(known[i]), 0)]

Below(entry, limit) == entry.tag = "num" /\ entry.v < limit

ExpectedFallback ==
    LET declining == SelectSeq(feature_trends, LAMBDA t : t.trend = "declining")
        whole == Remedies(FirstTwo([i \in 1..Len(declining) |-> declining[i].feature_name]),
                          "declining")
                 \o Remedies(FirstTwo(stagnant_features), "stagnant")
                 \o (IF Below(routine.sleep_hours, 7)
                     THEN <<Item("deterministic", "sleep", "", routine.sleep_hours.v)>>
                     ELSE <<>>)
                 \o (IF Below(routine.water_intake, 6)
                     THEN <<Item("deterministic", "water", "", routine.water_intake.v)>>
                     ELSE <<>>)
    IN  SubSeq(whole, 1, IF Len(whole) < 8 THEN Len(whole) ELSE 8)

\* the rule engine has run to its end: the generative path did not succeed
\* and neither routine entry is None
FallbackBuilt ==
    /\ pc = "returned"
    /\ ~CollaboratorSucceeded(ai_response)
    /\ routine.sleep_hours.tag # "null"
    /\ routine.water_intake.tag # "null"

T_C15 == FallbackBuilt => result.recommendations = ExpectedFallback

\* declines, stagnation flags (the first for a key without a remedy), short
\* sleep and little water all at once
W_C15 ==
    /\ FallbackBuilt
    /\ branch = "normal"
    /\ Len(SelectSeq(feature_trends, IsDeclining)) >= 2
    /\ Len(stagnant_features) >= 3
    /\ stagnant_features[1] = "custom_zone"
    /\ Below(routine.sleep_hours, 7)
    /\ Below(routine.water_intake, 6)
    /\ Len(result.recommendations) = 5

(***************************************************************************)
(* C16: one invocation calls the collaborator exactly once, in the         *)
(* low-data branch as in the normal one, and not again after a failure.    *)
(***************************************************************************)
T_C16 ==
    /\ pc = "idle" => llm_calls = 0
    /\ pc # "idle" => llm_calls = 1

\* the low-data branch ended on the rule engine after a failed call, with one call made
W_C16 ==
    /\ pc = "returned"
    /\ branch = "low"
    /\ ai_response.kind = "raise"
    /\ llm_calls = 1
    /\ result.lifestyle_tip = NoneItem

(***************************************************************************)
(* C17: with fewer than 2 historical samples no trend and no stagnation    *)
(* flag is computed, and the key insights are min(2, number of current     *)
(* features) entries, one for each of the lowest-scoring features in       *)
(* ascending score order.                                                  *)
(***************************************************************************)
LowestInsights(insights) ==
    LET features == current_analysis.features
    IN  /\ Len(insights) = (IF Len(features) < 2 THEN Len(features) ELSE 2)
        /\ \A k \in 1..Len(insights) : \A i \in 1..Len(features) :
               AheadByPosition(features, i) = k - 1 =>
                   /\ insights[k].feature = FeatureName(features[i].key)
                   /\ insights[k].points = Rat(features[i].value, 1)
                   /\ insights[k].category = "baseline"

T_C17 ==
    pc # "idle" /\ Len(historical_data) < 2 =>
        /\ branch = "low"
        /\ feature_trends = <<>>
        /\ significant_changes = <<>>
        /\ stagnant_features = <<>>
        /\ LowestInsights(key_insights)
        /\ pc = "returned" =>
               /\ LowestInsights(result.key_insights)
               /\ result.trend_analysis.improving_features = <<>>
               /\ result.trend_analysis.declining_features = <<>>
               /\ result.trend_analysis.stagnant_features = <<>>

\* {brightness: 80, texture: 20, dark_circles: 55} with one historical sample
W_C17 ==
    /\ pc = "returned"
    /\ Len(historical_data) = 1
    /\ current_analysis.features = <<[key |-> "brightness", value |-> 80],
                                     [key |-> "texture", value |-> 20],
                                     [key |-> "dark_circles", value |-> 55]>>
    /\ Len(result.key_insights) = 2
    /\ result.key_insights[1].feature = FeatureName("texture")
    /\ result.key_insights[2].feature = FeatureName("dark_circles")

(***************************************************************************)
(* C18: the status of the daily summary is the first match of the ladder   *)
(* improving >= 3 and declining = 0: Excellent progress; improving >= 2    *)
(* and declining <= 1: Good progress; stagnant >= 3: Time for changes;     *)
(* declining >= 2: Needs attention; else Steady progress, over the counts  *)
(* of improving trends, declining trends and stagnation flags.             *)
(***************************************************************************)
CountTrend(trend) ==
    Cardinality({i \in 1..Len(feature_trends) : feature_trends[i].trend = trend})

ExpectedStatus ==
    LET improving == CountTrend("improving")
        declining == CountTrend("declining")
        stagnant == Len(stagnant_features)
    IN  CASE improving >= 3 /\ declining = 0 -> "Excellent progress! "
          [] ~(improving >= 3 /\ declining = 0) /\ improving >= 2 /\ declining <= 1
                -> "Good progress! "
          [] ~(improving >= 2 /\ declining <= 1) /\ stagnant >= 3 -> "Time for changes. "
          [] ~(improving >= 2 /\ declining <= 1) /\ stagnant < 3 /\ declining >= 2
                -> "Needs attention. "
          [] OTHER -> "Steady progress. "

T_C18 ==
    branch = "normal" =>
        /\ daily_summary.status = ExpectedStatus
        /\ pc = "returned" => result.daily_summary.status = ExpectedStatus

\* two improving trends beside one declining one: the second rung
W_C18 ==
    /\ pc = "returned"
    /\ branch = "normal"
    /\ CountTrend("improving") = 2
    /\ CountTrend("declining") = 1
    /\ result.daily_summary.status = "Good progress! "

\* each of the other rungs
StatusExcellent == branch = "normal" /\ daily_summary.status = "Excellent progress! "
StatusChanges ==
    /\ branch = "normal" /\ daily_summary.status = "Time for changes. "
    /\ CountTrend("declining") >= 2
StatusAttention == branch = "normal" /\ daily_summary.status = "Needs attention. "
StatusSteady == branch = "normal" /\ daily_summary.status = "Steady progress. "

(***************************************************************************)
(* C20: invocations interleaved at their await do not interfere: each one  *)
(* that has ended has the outcome of a run on its own with the same        *)
(* arguments and the same collaborator response.                           *)
(***************************************************************************)
RunAlone(analysis, r, h, resp) ==
    IF Len(h) < 2
    THEN [pc |-> "returned",
          result |-> LowDataResult(analysis, BaselineInsights(analysis.features),
                                   GenerateAiRecommendations(resp, r, <<>>, <<>>), Len(h))]
    ELSE LET trends == AnalyzeFeatureTrends(analysis.features, h)
             stagnant == DetectStagnation(h, analysis.features)
             rec == GenerateAiRecommendations(resp, r, trends, stagnant)
         IN  IF rec.raised
             THEN [pc |-> "raised", result |-> NoResult]
             ELSE [pc |-> "returned",
                   result |-> NormalResult(GenerateDailySummary(analysis, trends, stagnant),
                                           GenerateKeyInsights(trends,
                                               DetectSignificantChanges(trends), stagnant),
                                           rec, trends, stagnant, Len(h))]

T_C20 ==
    \A i \in 1..NumTasks :
        tasks[i].pc \in {"returned", "raised"} =>
            [pc |-> tasks[i].pc, result |-> tasks[i].result]
                = RunAlone(tasks[i].current_analysis, tasks[i].routine,
                           tasks[i].historical_data, tasks[i].ai_response)

\* one invocation has returned the generative result while another, made
\* with other arguments and answered with a failure, is about to resume
W_C20 ==
    /\ tasks[1].pc = "returned"
    /\ tasks[1].result.lifestyle_tip # NoneItem
    /\ tasks[2].pc = "resumed"
    /\ tasks[2].ai_response.kind = "raise"
    /\ tasks[2].current_analysis # tasks[1].current_analysis
    /\ tasks[2].routine # tasks[1].routine

(***************************************************************************)
(* C21: the provenance fields of a result (model, provider) tell which     *)
(* path produced its recommendations: of two invocations with the same     *)
(* arguments, one answered with a success and one with a failure, the      *)
(* results differ in those fields.                                         *)
(***************************************************************************)
Provenance(res) == <<res.model, res.provider>>

SameArguments(t, u) ==
    /\ t.current_analysis = u.current_analysis
    /\ t.routine = u.routine
    /\ t.historical_data = u.historical_data

O_C21 ==
    \A i, j \in 1..NumTasks :
        /\ tasks[i].pc = "returned" /\ tasks[j].pc = "returned"
        /\ SameArguments(tasks[i], tasks[j])
        /\ tasks[i].result.lifestyle_tip # NoneItem
        /\ tasks[j].ai_response.kind = "raise"
        => Provenance(tasks[i].result) # Provenance(tasks[j].result)

(***************************************************************************)
(* C22: in the normal branch every feature of the current sample is in     *)
(* exactly one bucket of trend_analysis, the one its trend names.          *)
(***************************************************************************)
Bucket(analysis, trend) ==
    CASE trend = "improving" -> analysis.improving_features
      [] trend = "declining" -> analysis.declining_features
      [] trend = "stagnant" -> analysis.stagnant_features
      [] trend = "stable" -> analysis.stable_features

TrendNames == {"improving", "declining", "stagnant", "stable"}

O_C22 ==
    pc = "returned" /\ branch = "normal" =>
        \A i \in 1..Len(feature_trends) :
            \A trend \in TrendNames :
                feature_trends[i].feature_name \in Range(Bucket(result.trend_analysis, trend))
                    <=> feature_trends[i].trend = trend

O_C26 ==
    pc = "returned" /\ branch = "normal" =>
        /\ \A i \in 1..Len(feature_trends) :
               feature_trends[i].trend \in {"improving", "declining"} =>
                   feature_trends[i].feature_name
                       \notin Range(result.trend_analysis.stagnant_features)
        /\ \A a, b \in Range(result.key_insights) :
               a.category \in {"improvement", "decline"} /\ b.category = "stagnation"
                   => a.feature # b.feature

(***************************************************************************)
(* C27: the two recommendation paths judge a routine alike: the rule       *)
(* engine emits its sleep recommendation exactly for the routines for      *)
(* which the lifestyle ladder selects one of its two short-sleep messages. *)
(***************************************************************************)
FallbackHasSleep(r) ==
    \E i \in 1..Len(RuleBasedFallback(<<>>, <<>>, r).value) :
        RuleBasedFallback(<<>>, <<>>, r).value[i].kind = "sleep"

LadderSaysShortSleep(r) ==
    GetLifestyleRecommendation(r).value.kind
        \in {"lifestyle_prioritize_sleep", "lifestyle_add_hour"}

O_C27 ==
    /\ pc # "idle"
    /\ ~RuleBasedFallback(<<>>, <<>>, routine).raised
    /\ ~GetLifestyleRecommendation(routine).raised
    => (FallbackHasSleep(routine) <=> LadderSaysShortSleep(routine))

(***************************************************************************)
(* C28 as stated: for every history of 2 samples or more the comparison    *)
(* window and the recent window of the trend analyzer share no sample.     *)
(***************************************************************************)
SharedDates == Range(Dates(recent_period)) \cap Range(Dates(comparison_period))

O_C28 == branch = "normal" => SharedDates = {}

(***************************************************************************)
(* C28, amended: the two windows share no sample exactly when the history  *)
(* has 14 samples or more.  With 7 to 13 samples the comparison window is  *)
(* the first 7 samples and overlaps the recent one, and with 2 to 6        *)
(* samples it is the first half of the recent window, which is the whole   *)
(* history.                                                                *)
(***************************************************************************)
T_C28 ==
    branch = "normal" =>
        LET N == Len(historical_data)
        IN  /\ SharedDates = {} <=> N >= 14
            /\ N >= 7 /\ N < 14 => SharedDates = (N - 6)..7
            /\ N < 7 => SharedDates = 1..(N \div 2)

\* four samples were analysed: samples 1 and 2 are in both windows
W_C28 ==
    /\ branch = "normal"
    /\ pc = "returned"
    /\ Len(historical_data) = 4
    /\ Dates(recent_period) = <<1, 2, 3, 4>>
    /\ Dates(comparison_period) = <<1, 2>>

(***************************************************************************)
(* C24: the locally computed parts of the result do not depend on the      *)
(* collaborator: two invocations with the same arguments that both return  *)
(* carry the same daily_summary, key_insights, trend_analysis and          *)
(* data_points_analyzed, whatever each one's collaborator did.             *)
(***************************************************************************)
LocalParts(res) ==
    <<res.daily_summary, res.key_insights, res.trend_analysis, res.data_points_analyzed>>

T_C24 ==
    \A i, j \in 1..NumTasks :
        /\ tasks[i].pc = "returned" /\ tasks[j].pc = "returned"
        /\ SameArguments(tasks[i], tasks[j])
        => LocalParts(tasks[i].result) = LocalParts(tasks[j].result)

\* the same low-data arguments, answered once with a success and once with a failure
W_C24 ==
    /\ tasks[1].pc = "returned" /\ tasks[2].pc = "returned"
    /\ SameArguments(tasks[1], tasks[2])
    /\ tasks[1].branch = "low"
    /\ tasks[1].result.lifestyle_tip # NoneItem
    /\ tasks[2].ai_response.kind = "raise"
    /\ Len(tasks[2].result.key_insights) = 2
    /\ tasks[1].result.recommendations # tasks[2].result.recommendations

(***************************************************************************)
(* C25: an invocation leaves its arguments (current sample, routine,       *)
(* history) as they were handed in, and the collaborator's response as it  *)
(* was returned, on every path.  (The configuration is assigned in         *)
(* __init__ alone and is a set of constants here.)                         *)
(***************************************************************************)
T_C25 ==
    [][/\ pc # "idle" => args' = args
       /\ pc \in {"resumed", "returned", "raised"} => ai_response' = ai_response]_vars

\* a success: the result holds 4 of the collaborator's items and the tip,
\* the response still holds all of its items
W_C25 ==
    /\ pc = "returned"
    /\ Len(ai_response.recommendations.items) = MaxRecs
    /\ Len(ai_response.natural_remedies.items) = 3
    /\ Len(result.recommendations) = 5
    /\ result.recommendations[5] = result.lifestyle_tip
    /\ Len(result.natural_remedies) = 2
    /\ Len(historical_data) = MaxHist
    /\ routine.sleep_hours = Num(5)

(***************************************************************************)
(* C29: in analyze_face for a registered user, when the image analysis     *)
(* succeeded and the storage operations succeed, the analysis is saved     *)
(* (save_analysis and the local cache) and returned, also when the history *)
(* retrieval or the summary generation raised.                             *)
(***************************************************************************)
O_C29 ==
    /\ api.pc = "done"
    /\ api.handler = "analyze_face"
    /\ api.user_id # "guest"
    /\ api.response # "http_error"
    /\ api.storage = "ok"
    => /\ api.db_calls = 1
       /\ api.cache_calls = 1
       /\ api.response \in {"analysis", "analysis+summary"}

(***************************************************************************)
(* C30: for the user "guest" neither handler reads the persisted history   *)
(* or writes to storage: the history handed to generate_smart_summary is   *)
(* empty, the summary is the low-data one, and save_analysis and           *)
(* save_analysis_data are not invoked.                                     *)
(***************************************************************************)
T_C30 ==
    /\ api.db["guest"] = 0
    /\ api.cache["guest"] = 0
    /\ api.user_id = "guest" =>
           /\ api.history_reads = 0
           /\ api.history = 0
           /\ api.db_calls = 0
           /\ api.cache_calls = 0
           /\ api.variant \in {"", "low"}
           /\ api.pc \in {"summarised", "done"} /\ api.response # "http_error"
                  => api.variant = "low"

\* a guest's analysis has been answered with its summary while a registered
\* user has analyses in both stores
W_C30 ==
    /\ api.pc = "done"
    /\ api.handler = "analyze_face"
    /\ api.user_id = "guest"
    /\ api.response = "analysis+summary"
    /\ api.variant = "low"
    /\ api.cache["u1"] >= 2
    /\ api.db["u1"] >= 2
====
